---- MODULE Spec2Model ----
(***************************************************************************)
(* Model of the deduplicating image-ingestion routes of r2-image-uploader  *)
(* (src/src/routes/index.ts, the D1-backed revision at lines 103-265).     *)
(* Every request is a process whose steps are the handler's code between   *)
(* two awaits on a shared resource (D1, R2, the remote source).  A slot    *)
(* holds a request from its start until its response has been sent; the    *)
(* slot is then free for the next request.                                 *)
(*   Spec     requests of one client on one day, any interleaving          *)
(*   SeqSpec  one request at a time, every input, the day may change       *)
(*   LiveSpec SeqSpec with the fairness of the handler's continuations     *)
(*   AnonSpec Spec for requests without a client identifier                *)
(*   ExtSpec  uploadImageToR2 on any content type                          *)
(* D1 reads and the INSERT INTO uploads are taken to succeed; r2.put, the  *)
(* INSERT INTO images and the fetch may fail.                              *)
(***************************************************************************)
EXTENDS Integers, FiniteSets, Sequences, TLC

VARIABLES
    clock,       \* the calendar day dayjs() reports
    runtimeKey,  \* getRuntimeKey()
    uploads,     \* D1 table uploads: the number of rows per ip and date
    images,      \* D1 table images: rows url, md5, original_url
    objects,     \* the R2 bucket
    req,         \* the requests in flight, one record per slot
    served       \* per md5, the url the first successful ingestion returned

vars == <<clock, runtimeKey, uploads, images, objects, req, served>>

(* ------------------------------ bounds --------------------------------- *)
NumReqs == 2
MaxDay == 2
MaxObjects == 2

(* ------------------------- configuration values ------------------------ *)
MAX_UPLOAD_COUNT == 2
MAX_BODY_SIZE == 2

R2_BASE_URL == "r2"

Reqs == 1..NumReqs
Days == 1..MaxDay

(* ------------------------------ inputs --------------------------------- *)
NoHeader == ""
IpHeaders == {NoHeader, "1.1.1.1"}
\* the requests that race with each other come from one client
RaceHeaders == {"1.1.1.1"}
\* requests that carry no CF-Connecting-IP header
AnonHeaders == {NoHeader}

NoType == <<>>
ContentTypes == {NoType, <<"image", "png">>, <<"text", "html">>}

\* the content types getFileExtension is tried on
MediaTypes == {"image", "text", "application", "video", "audio"}
Subtypes == {"jpeg", "png", "gif", "webp", "bmp", "tiff", "svg+xml",
             "jpg", "svg", "xyz", "html", "x-icon"}
AnyContentTypes == {NoType} \cup {<<t, u>> : t \in MediaTypes, u \in Subtypes}

NoLen == -1
ContentLengths == {NoLen, MAX_BODY_SIZE, MAX_BODY_SIZE + 1}
RaceLengths == {NoLen, MAX_BODY_SIZE + 1}

NoBody == ""
Bodies == {"B1", "B2"}

NoUrl == <<>>
SilentUrl == <<"ext", "silent">>
ExternalUrls == {<<"ext", "a">>, SilentUrl}

NoKey == <<>>
NoMd5 == ""

RuntimeKeys == {"workerd", "node"}

(* A response of the remote source: 2xx or not, its headers and its body. *)
Responses == [ok : BOOLEAN, ctype : ContentTypes, clen : ContentLengths, body : Bodies]
RaceResponses == [ok : {TRUE}, ctype : ContentTypes, clen : RaceLengths, body : Bodies]

(* ------------------------- pure functions ------------------------------ *)
\* a lookup by the subtype instead of the table
getFileExtensionSubtype(contentType) ==
    IF contentType = NoType THEN "throw"
    ELSE IF contentType[1] = "image" THEN contentType[2]
    ELSE "unknown"

\* getFileExtension: the mimeTypeMap lookup, "unknown" for an unmapped type,
\* "throw" for the thrown Error('Content-Type is required').
getFileExtension(contentType) ==
    IF contentType = NoType THEN "throw"
    ELSE IF contentType = <<"image", "jpeg">> THEN "jpg"
    ELSE IF contentType = <<"image", "png">> THEN "png"
    ELSE IF contentType = <<"image", "gif">> THEN "gif"
    ELSE IF contentType = <<"image", "webp">> THEN "webp"
    ELSE IF contentType = <<"image", "bmp">> THEN "bmp"
    ELSE IF contentType = <<"image", "tiff">> THEN "tiff"
    ELSE IF contentType = <<"image", "svg+xml">> THEN "svg"
    ELSE "unknown"

\* calculateMD5: the hex digest of the body, a fixed function of the bytes.
calculateMD5(buffer) ==
    IF buffer = "B1" THEN "d1"
    ELSE IF buffer = "B2" THEN "d2"
    ELSE "d0"

\* !contentType || !contentType.startsWith('image/')
InvalidFormat(contentType) ==
    contentType = NoType \/ contentType[1] # "image"

\* the size comparison written with >= instead of >
TooLargeOrEqual(contentLength) ==
    contentLength # NoLen /\ contentLength >= MAX_BODY_SIZE

\* contentLength && parseInt(contentLength) > MAX_BODY_SIZE
TooLarge(contentLength) ==
    contentLength # NoLen /\ contentLength > MAX_BODY_SIZE

\* c.req.header('CF-Connecting-IP') || 'unknown'
ClientIp(header) ==
    IF header = NoHeader THEN "unknown" ELSE header

ClientIps == {ClientIp(h) : h \in IpHeaders}

\* url.startsWith(R2_BASE_URL)
StartsWithBase(url) ==
    url # NoUrl /\ url[1] = R2_BASE_URL

\* new URL(R2_BASE_URL); url.pathname = key; url.toString()
ImageUrl(key) == <<R2_BASE_URL, key>>

\* the key of uploadImageToR2: prefix, timestamp and random suffix make it
\* fresh; the extension comes from the content type.
NewKey(contentType) == <<Cardinality(objects) + 1, getFileExtension(contentType)>>

(* --------------------------- responses --------------------------------- *)
NoRes == [status |-> 0, error |-> "", url |-> NoUrl]
Success(u) == [status |-> 200, error |-> "", url |-> u]
JsonError(s, e) == [status |-> s, error |-> e, url |-> NoUrl]
\* an exception that leaves the handler: no c.json() was produced
Unhandled == [status |-> -1, error |-> "uncaught", url |-> NoUrl]

ErrRuntime == "This function is only available in Cloudflare Workers"
ErrUrl == "URL is required"
ErrLimit == "Upload limit exceeded for this IP"
ErrFormat == "Invalid image format"
ErrSize == "Image size exceeds the limit"
ErrUpload == "Failed to upload image"

(* ----------------------------- state ----------------------------------- *)
IdleReq == [pc |-> "idle", ep |-> "", ip |-> "", today |-> 0, url |-> NoUrl,
            srcOk |-> TRUE, ctype |-> NoType, clen |-> NoLen, body |-> NoBody,
            md5 |-> NoMd5, admitted |-> FALSE, fetched |-> FALSE,
            stored |-> NoKey, indexed |-> FALSE, res |-> NoRes]

Init ==
    /\ clock = 1
    /\ runtimeKey \in RuntimeKeys
    /\ uploads = [i \in ClientIps |-> [d \in Days |-> 0]]
    /\ images = {}
    /\ objects = {}
    /\ req = [r \in Reqs |-> IdleReq]
    /\ served = [m \in {calculateMD5(b) : b \in Bodies} |-> NoUrl]

\* the handler returns: c.json(...) or an exception that leaves it
Finish(r, rec, result) ==
    /\ req' = [req EXCEPT ![r] = [rec EXCEPT !.pc = "done", !.res = result]]
    /\ served' = IF result.status = 200 /\ rec.md5 # NoMd5 /\ served[rec.md5] = NoUrl
                 THEN [served EXCEPT ![rec.md5] = result.url]
                 ELSE served

\* a new request takes the first free slot
MayStart(r) ==
    /\ req[r].pc = "idle"
    /\ \A q \in Reqs : q < r => req[q].pc # "idle"

(* ------------------------- shared helpers ------------------------------ *)
\* how a thrown error ends the request: upload-from-url catches it inside
\* its try block (lines 204-230), upload-from-body has no try block.
Thrown(rec) ==
    IF rec.ep = "url" THEN JsonError(500, ErrUpload) ELSE Unhandled

\* a table without the UNIQUE constraint on md5
Md5UniqueOff(md5) ==
    TRUE

\* images(md5 UNIQUE): the insert is refused when the md5 is already indexed
Md5Unique(md5) ==
    \A row \in images : row.md5 # md5

BadJson == <<"badjson">>
ForeignR2Url == ImageUrl(<<0, "png">>)
RequestUrls ==
    {NoUrl, BadJson, ForeignR2Url} \cup ExternalUrls \cup {ImageUrl(o.key) : o \in objects}
RaceUrls == {NoUrl, <<"ext", "a">>}

(* ------------------------- POST /upload-from-url ----------------------- *)
\* the handler without its getRuntimeKey() test
StartUrlAnyRuntime(r, header, url) ==
    /\ MayStart(r)
    /\ LET rec == [req[r] EXCEPT !.ep = "url"] IN
       IF url = BadJson THEN Finish(r, rec, Unhandled)
       ELSE IF url = NoUrl THEN Finish(r, rec, JsonError(400, ErrUrl))
       ELSE /\ UNCHANGED served
            /\ req' = [req EXCEPT ![r] = [rec EXCEPT !.pc = "count", !.url = url,
                                                  !.ip = ClientIp(header),
                                                  !.today = clock]]
    /\ UNCHANGED <<clock, runtimeKey, uploads, images, objects>>

\* lines 185-197: runtime check, JSON body, url check, ip, dayjs() of
\* checkIPUploadCount, up to the await of the SELECT COUNT.
StartUrl(r, header, url) ==
    /\ MayStart(r)
    /\ LET rec == [req[r] EXCEPT !.ep = "url"] IN
       IF runtimeKey # "workerd" THEN Finish(r, rec, JsonError(500, ErrRuntime))
       ELSE IF url = BadJson THEN Finish(r, rec, Unhandled)
       ELSE IF url = NoUrl THEN Finish(r, rec, JsonError(400, ErrUrl))
       ELSE /\ UNCHANGED served
            /\ req' = [req EXCEPT ![r] = [rec EXCEPT !.pc = "count", !.url = url,
                                                  !.ip = ClientIp(header),
                                                  !.today = clock]]
    /\ UNCHANGED <<clock, runtimeKey, uploads, images, objects>>

(* ------------------------- POST /upload-from-body ---------------------- *)
\* lines 235-251: runtime check, content-type and content-length checks, ip,
\* dayjs() of checkIPUploadCount, up to the await of the SELECT COUNT.
StartBody(r, header, contentType, contentLength) ==
    /\ MayStart(r)
    /\ LET rec == [req[r] EXCEPT !.ep = "body"] IN
       IF runtimeKey # "workerd" THEN Finish(r, rec, JsonError(500, ErrRuntime))
       ELSE LET hdr == [rec EXCEPT !.ctype = contentType, !.clen = contentLength] IN
            IF InvalidFormat(contentType) THEN Finish(r, hdr, JsonError(400, ErrFormat))
            ELSE IF TooLarge(contentLength) THEN Finish(r, hdr, JsonError(400, ErrSize))
            ELSE /\ UNCHANGED served
                 /\ req' = [req EXCEPT ![r] = [hdr EXCEPT !.pc = "count",
                                                       !.ip = ClientIp(header),
                                                       !.today = clock]]
    /\ UNCHANGED <<clock, runtimeKey, uploads, images, objects>>

(* ------------------------- checkIPUploadCount -------------------------- *)
\* the comparison written with > instead of >=
CountUploadsOffByOne(r) ==
    /\ req[r].pc = "count"
    /\ IF uploads[req[r].ip][req[r].today] > MAX_UPLOAD_COUNT
       THEN Finish(r, req[r], JsonError(429, ErrLimit))
       ELSE /\ UNCHANGED served
            /\ req' = [req EXCEPT ![r].pc = "charge"]
    /\ UNCHANGED <<clock, runtimeKey, uploads, images, objects>>

\* the SELECT COUNT(*) without its date condition
CountUploadsAnyDay(r) ==
    /\ req[r].pc = "count"
    /\ IF \E d \in Days : uploads[req[r].ip][d] >= MAX_UPLOAD_COUNT
       THEN Finish(r, req[r], JsonError(429, ErrLimit))
       ELSE /\ UNCHANGED served
            /\ req' = [req EXCEPT ![r].pc = "charge"]
    /\ UNCHANGED <<clock, runtimeKey, uploads, images, objects>>

\* lines 166-170: SELECT COUNT(*) ... WHERE ip = ? AND date = ?, compared
\* with MAX_UPLOAD_COUNT; false ends the request with 429.
CountUploads(r) ==
    /\ req[r].pc = "count"
    /\ IF uploads[req[r].ip][req[r].today] >= MAX_UPLOAD_COUNT
       THEN Finish(r, req[r], JsonError(429, ErrLimit))
       ELSE /\ UNCHANGED served
            /\ req' = [req EXCEPT ![r].pc = "charge"]
    /\ UNCHANGED <<clock, runtimeKey, uploads, images, objects>>

\* line 172: INSERT INTO uploads (ip, date)
ChargeUpload(r) ==
    uploads' = [uploads EXCEPT ![req[r].ip][req[r].today] = @ + 1]

\* lines 172-173 then 200-205 of upload-from-url: the row is inserted, an
\* R2 url is returned as it is, any other url is fetched.
InsertUploadUrl(r) ==
    /\ req[r].pc = "charge"
    /\ req[r].ep = "url"
    /\ ChargeUpload(r)
    /\ LET rec == [req[r] EXCEPT !.admitted = TRUE] IN
       IF StartsWithBase(rec.url) THEN Finish(r, rec, Success(rec.url))
       ELSE /\ UNCHANGED served
            /\ req' = [req EXCEPT ![r] = [rec EXCEPT !.pc = "fetch"]]
    /\ UNCHANGED <<clock, runtimeKey, images, objects>>

\* lines 172-173 then 254-256 of upload-from-body: the row is inserted, the
\* body is read and hashed.
InsertUploadBody(r, body) ==
    /\ req[r].pc = "charge"
    /\ req[r].ep = "body"
    /\ ChargeUpload(r)
    /\ UNCHANGED served
    /\ req' = [req EXCEPT ![r] = [@ EXCEPT !.admitted = TRUE, !.body = body,
                                           !.md5 = calculateMD5(body),
                                           !.pc = "lookup"]]
    /\ UNCHANGED <<clock, runtimeKey, images, objects>>

(* ------------------------------ fetch ---------------------------------- *)
\* lines 205-219: the response arrives; header checks, body, md5.
FetchRespond(r, resp) ==
    /\ req[r].pc = "fetch"
    /\ req[r].url # SilentUrl
    /\ LET rec == [req[r] EXCEPT !.fetched = TRUE, !.srcOk = resp.ok,
                                 !.ctype = resp.ctype, !.clen = resp.clen] IN
       IF InvalidFormat(resp.ctype) THEN Finish(r, rec, JsonError(400, ErrFormat))
       ELSE IF TooLarge(resp.clen) THEN Finish(r, rec, JsonError(400, ErrSize))
       ELSE /\ UNCHANGED served
            /\ req' = [req EXCEPT ![r] = [rec EXCEPT !.body = resp.body,
                                                  !.md5 = calculateMD5(resp.body),
                                                  !.pc = "lookup"]]
    /\ UNCHANGED <<clock, runtimeKey, uploads, images, objects>>

\* line 205 rejecting (network error), caught at line 228
FetchReject(r) ==
    /\ req[r].pc = "fetch"
    /\ req[r].url # SilentUrl
    /\ Finish(r, [req[r] EXCEPT !.fetched = TRUE], Thrown(req[r]))
    /\ UNCHANGED <<clock, runtimeKey, uploads, images, objects>>

(* --------------------------- checkFileExists --------------------------- *)
\* a lookup that never finds the row
CheckFileExistsMiss(r) ==
    /\ req[r].pc = "lookup"
    /\ req' = [req EXCEPT ![r].pc = "put"]
    /\ UNCHANGED <<clock, runtimeKey, uploads, images, objects, served>>

\* lines 177-181 with 220-223 / 256-259
CheckFileExists(r) ==
    /\ req[r].pc = "lookup"
    /\ LET hits == {row \in images : row.md5 = req[r].md5} IN
       IF hits # {}
       THEN \E row \in hits : Finish(r, req[r], Success(row.url))
       ELSE /\ UNCHANGED served
            /\ req' = [req EXCEPT ![r].pc = "put"]
    /\ UNCHANGED <<clock, runtimeKey, uploads, images, objects>>

(* --------------------------- uploadImageToR2 --------------------------- *)
\* lines 139-157: r2.put of the body under a new key
\* (getFileExtension throws at line 144 when the content type is missing)
PutObject(r) ==
    /\ req[r].pc = "put"
    /\ Cardinality(objects) < MaxObjects
    /\ LET key == NewKey(req[r].ctype) IN
       IF getFileExtension(req[r].ctype) = "throw"
       THEN /\ objects' = objects
            /\ Finish(r, req[r], Thrown(req[r]))
       ELSE /\ objects' = objects \cup {[key |-> key, body |-> req[r].body,
                                         contentType |-> req[r].ctype]}
            /\ req' = [req EXCEPT ![r] = [@ EXCEPT !.stored = key, !.pc = "index"]]
            /\ UNCHANGED served
    /\ UNCHANGED <<clock, runtimeKey, uploads, images>>

\* a rejected r2.put that is not noticed: the request goes on to the insert
PutFailIgnored(r) ==
    /\ req[r].pc = "put"
    /\ req' = [req EXCEPT ![r].pc = "index"]
    /\ UNCHANGED <<clock, runtimeKey, uploads, images, objects, served>>

\* r2.put rejecting
PutFail(r) ==
    /\ req[r].pc = "put"
    /\ Finish(r, req[r], Thrown(req[r]))
    /\ UNCHANGED <<clock, runtimeKey, uploads, images, objects>>

(* ------------------------ INSERT INTO images --------------------------- *)
\* INSERT OR REPLACE instead of INSERT
InsertImageReplace(r) ==
    /\ req[r].pc = "index"
    /\ images' = {row \in images : row.md5 # req[r].md5}
                    \cup {[url |-> ImageUrl(req[r].stored), md5 |-> req[r].md5,
                           original_url |-> req[r].url]}
    /\ Finish(r, [req[r] EXCEPT !.indexed = TRUE], Success(ImageUrl(req[r].stored)))
    /\ UNCHANGED <<clock, runtimeKey, uploads, objects>>

\* lines 226-227 / 261-262
InsertImage(r) ==
    /\ req[r].pc = "index"
    /\ IF Md5Unique(req[r].md5)
       THEN /\ images' = images \cup {[url |-> ImageUrl(req[r].stored),
                                       md5 |-> req[r].md5,
                                       original_url |-> req[r].url]}
            /\ Finish(r, [req[r] EXCEPT !.indexed = TRUE],
                      Success(ImageUrl(req[r].stored)))
       ELSE /\ images' = images
            /\ Finish(r, req[r], Thrown(req[r]))
    /\ UNCHANGED <<clock, runtimeKey, uploads, objects>>

\* a failed INSERT that is not noticed: the url is returned all the same
InsertImageFailIgnored(r) ==
    /\ req[r].pc = "index"
    /\ Finish(r, req[r], Success(ImageUrl(req[r].stored)))
    /\ UNCHANGED <<clock, runtimeKey, uploads, images, objects>>

\* the statement failing in D1
InsertImageFail(r) ==
    /\ req[r].pc = "index"
    /\ Finish(r, req[r], Thrown(req[r]))
    /\ UNCHANGED <<clock, runtimeKey, uploads, images, objects>>

(* ------------------------------ response ------------------------------ *)
\* the response is sent; the slot is free for the next request
Reset(r) ==
    /\ req[r].pc = "done"
    /\ req' = [req EXCEPT ![r] = IdleReq]
    /\ UNCHANGED <<clock, runtimeKey, uploads, images, objects, served>>

(* ------------------------------ clock ---------------------------------- *)
\* the calendar day of dayjs() moves on
Tick ==
    /\ clock < MaxDay
    /\ clock' = clock + 1
    /\ UNCHANGED <<runtimeKey, uploads, images, objects, req, served>>

(* --------------------------- specification ----------------------------- *)
\* the steps of a started request that take no input
Step(r) ==
    \/ CountUploads(r)
    \/ InsertUploadUrl(r)
    \/ \E body \in Bodies : InsertUploadBody(r, body)
    \/ FetchReject(r)
    \/ CheckFileExists(r)
    \/ PutObject(r)
    \/ PutFail(r)
    \/ InsertImage(r)
    \/ InsertImageFail(r)
    \/ Reset(r)

\* Spec: requests of one client on one day, any interleaving of their steps.
RaceStart(r) ==
    \/ \E header \in RaceHeaders, url \in RaceUrls : StartUrl(r, header, url)
    \/ \E header \in RaceHeaders, contentType \in ContentTypes,
          contentLength \in RaceLengths :
            StartBody(r, header, contentType, contentLength)

Next ==
    \/ \E r \in Reqs : RaceStart(r)
    \/ \E r \in Reqs : Step(r)
    \/ \E r \in Reqs, resp \in RaceResponses : FetchRespond(r, resp)

Spec == Init /\ [][Next]_vars

\* AnonSpec: requests without a client identifier on one day, any
\* interleaving of their steps.
AnonStart(r) ==
    \/ \E header \in AnonHeaders, url \in RaceUrls : StartUrl(r, header, url)
    \/ \E header \in AnonHeaders, contentType \in ContentTypes,
          contentLength \in RaceLengths :
            StartBody(r, header, contentType, contentLength)

AnonNext ==
    \/ \E r \in Reqs : AnonStart(r)
    \/ \E r \in Reqs : Step(r)
    \/ \E r \in Reqs, resp \in RaceResponses : FetchRespond(r, resp)

AnonSpec == Init /\ [][AnonNext]_vars

\* ExtSpec: uploadImageToR2 called once with any content type.
ExtInit ==
    /\ clock = 1
    /\ runtimeKey = "workerd"
    /\ uploads = [i \in ClientIps |-> [d \in Days |->
                    IF i = "unknown" /\ d = 1 THEN 1 ELSE 0]]
    /\ images = {}
    /\ objects = {}
    /\ served = [m \in {calculateMD5(b) : b \in Bodies} |-> NoUrl]
    /\ \E contentType \in AnyContentTypes, body \in Bodies, ep \in {"url", "body"} :
         req = [r \in Reqs |->
                  IF r = 1
                  THEN [IdleReq EXCEPT !.pc = "put", !.ep = ep, !.ip = "unknown",
                                       !.today = 1, !.admitted = TRUE,
                                       !.url = IF ep = "url" THEN <<"ext", "a">> ELSE NoUrl,
                                       !.fetched = (ep = "url"),
                                       !.ctype = contentType, !.body = body,
                                       !.md5 = calculateMD5(body)]
                  ELSE IdleReq]

ExtNext == \E r \in Reqs : PutObject(r)

ExtSpec == ExtInit /\ [][ExtNext]_vars

\* SeqSpec: one request at a time, every input, the day may change.
Quiet == \A q \in Reqs : req[q].pc = "idle"

SeqStart(r) ==
    /\ Quiet
    /\ \/ \E header \in IpHeaders, url \in RequestUrls : StartUrl(r, header, url)
       \/ \E header \in IpHeaders, contentType \in ContentTypes,
             contentLength \in ContentLengths :
               StartBody(r, header, contentType, contentLength)

SeqNext ==
    \/ \E r \in Reqs : SeqStart(r)
    \/ \E r \in Reqs : Step(r)
    \/ \E r \in Reqs, resp \in Responses : FetchRespond(r, resp)
    \/ Tick

SeqSpec == Init /\ [][SeqNext]_vars

\* LiveSpec: SeqSpec where every started request keeps running: the
\* continuation after an await runs once the awaited call has settled, and a
\* source that is not silent answers.
LiveSpec ==
    /\ SeqSpec
    /\ \A r \in Reqs : WF_vars(Step(r))
    /\ \A r \in Reqs : WF_vars(\E resp \in Responses : FetchRespond(r, resp))

(* ------------------------------- claims -------------------------------- *)
Done(r) == req[r].pc = "done"

\* C1: under any interleaving of requests of one client on one day, the rows
\* of uploads for that ip and date never exceed MAX_UPLOAD_COUNT.
C1_AdmittedWithinLimit ==
    \A i \in ClientIps, d \in Days : uploads[i][d] <= MAX_UPLOAD_COUNT

\* C2: two concurrent requests that carry byte-identical bodies never both
\* write an object: no two requests with the same md5 are both past their
\* r2.put at the same time.
C2_OneObjectPerRace ==
    \A q, r \in Reqs :
        (q # r /\ req[q].pc = "index" /\ req[r].pc = "index")
            => req[q].md5 # req[r].md5

\* C3: with one request at a time, a call of checkIPUploadCount is refused
\* (429) exactly when MAX_UPLOAD_COUNT calls of that client and day have been
\* admitted before it: the first MAX_UPLOAD_COUNT calls pass, the next one
\* does not, whatever is uploaded.
C3_QuotaSequential ==
    /\ \A i \in ClientIps, d \in Days : uploads[i][d] <= MAX_UPLOAD_COUNT
    /\ \A r \in Reqs :
        /\ (Done(r) /\ req[r].res.error = ErrLimit)
              => /\ req[r].res.status = 429
                 /\ uploads[req[r].ip][req[r].today] = MAX_UPLOAD_COUNT
        /\ req[r].pc = "charge"
              => uploads[req[r].ip][req[r].today] < MAX_UPLOAD_COUNT
        /\ (Done(r) /\ req[r].today # 0 /\ ~req[r].admitted)
              => req[r].res = JsonError(429, ErrLimit)

C3_Witness ==
    \E r \in Reqs :
        /\ Done(r)
        /\ req[r].res = JsonError(429, ErrLimit)
        /\ uploads[req[r].ip][req[r].today] = MAX_UPLOAD_COUNT

\* C4: a request that ends as RateLimited, InvalidFormat or TooLarge has
\* added no row to uploads.
C4_RejectedNotCharged ==
    \A r \in Reqs :
        (Done(r) /\ req[r].res.error \in {ErrLimit, ErrFormat, ErrSize})
            => ~req[r].admitted

\* C5: with one request at a time, once an ingestion of some bytes has
\* returned url U, a later request that holds the same bytes writes neither
\* an object nor an index row, and it ends with success and U.
C5_DedupIdempotent ==
    [][\A r \in Reqs :
         (req[r].pc \in {"lookup", "put", "index"} /\ served[req[r].md5] # NoUrl)
            => /\ objects' = objects
               /\ images' = images
               /\ \/ req'[r] = req[r]
                  \/ /\ req'[r].pc = "done"
                     /\ req'[r].res = Success(served[req[r].md5])
                     /\ req'[r].stored = NoKey
                     /\ ~req'[r].indexed]_vars

C5_Witness ==
    \E r \in Reqs :
        /\ Done(r)
        /\ req[r].md5 # NoMd5
        /\ req[r].stored = NoKey
        /\ req[r].res = Success(served[req[r].md5])

ReturnedUrls == {served[m] : m \in DOMAIN served} \ {NoUrl}

\* C6: an upload-from-url request whose url is a canonical url returned
\* before ends with success and that url, without a fetch, a put or an index
\* write, whatever the uploads and images tables hold.
C6_ShortCircuitAlways ==
    \A r \in Reqs :
        (Done(r) /\ req[r].ep = "url" /\ req[r].url \in ReturnedUrls)
            => /\ req[r].res = Success(req[r].url)
               /\ ~req[r].fetched
               /\ req[r].stored = NoKey
               /\ ~req[r].indexed

\* C7: a request has added one row to uploads if it ended in success and
\* none if it ended in an error.
C7_ChargedIffAccepted ==
    \A r \in Reqs :
        Done(r) => (req[r].admitted <=> req[r].res.status = 200)

\* C8: the images table never holds two rows with the same md5.
C8_Md5Unique ==
    \A a, b \in images : a.md5 = b.md5 => a = b

\* two requests raced on the same bytes: one has indexed its object, the
\* other has stored a second object and is about to insert.
C8_Witness ==
    \E q, r \in Reqs :
        /\ Done(q) /\ req[q].indexed
        /\ req[r].pc = "index"
        /\ req[r].md5 = req[q].md5

\* C9: every request that fails ends with a JSON error body and a status
\* written by the handler: no exception leaves the handler.
C9_NoUnhandledFailure ==
    \A r \in Reqs : Done(r) => req[r].res # Unhandled

\* C10: every upload-from-url request that waits for its source eventually
\* ends (success or an error response).
C10_FetchTerminates ==
    \A r \in Reqs : (req[r].pc = "fetch") ~> (req[r].pc = "done")

\* C11: a request whose source answered with a non-2xx response ends with
\* 500 "Failed to upload image" and has written neither an object nor an
\* index row, whatever content type the response declares.
C11_Non2xxFails ==
    \A r \in Reqs :
        (req[r].fetched /\ ~req[r].srcOk)
            => /\ Done(r)
               /\ req[r].res = JsonError(500, ErrUpload)
               /\ req[r].stored = NoKey
               /\ ~req[r].indexed

\* C12: an upload-from-body request with an image/ content type and a
\* declared content-length above MAX_BODY_SIZE ends with 400 "Image size
\* exceeds the limit"; its body is not read, no row is added to uploads, no
\* object and no index row are written.  A declared length equal to
\* MAX_BODY_SIZE is not rejected for size.
C12_BodyTooLarge ==
    \A r \in Reqs :
        (req[r].ep = "body" /\ runtimeKey = "workerd" /\ req[r].pc # "idle"
         /\ req[r].ctype # NoType /\ req[r].ctype[1] = "image")
            => /\ req[r].clen > MAX_BODY_SIZE
                  => /\ Done(r)
                     /\ req[r].res = JsonError(400, ErrSize)
                     /\ req[r].body = NoBody
                     /\ ~req[r].admitted
                     /\ req[r].stored = NoKey
                     /\ ~req[r].indexed
               /\ req[r].clen = MAX_BODY_SIZE => req[r].res.error # ErrSize

C12_Witness ==
    \E r \in Reqs :
        /\ Done(r)
        /\ req[r].ep = "body"
        /\ req[r].clen = MAX_BODY_SIZE + 1
        /\ req[r].res = JsonError(400, ErrSize)

\* C13: when the runtime key is not workerd, every request of both
\* endpoints ends at once with 500 and the runtime error; uploads, images
\* and the object store stay as they were and nothing is fetched.
C13_UnsupportedRuntime ==
    runtimeKey # "workerd"
        => /\ \A i \in ClientIps, d \in Days : uploads[i][d] = 0
           /\ images = {}
           /\ objects = {}
           /\ \A r \in Reqs :
                /\ req[r].pc \in {"idle", "done"}
                /\ Done(r) => /\ req[r].res = JsonError(500, ErrRuntime)
                              /\ ~req[r].fetched
                              /\ ~req[r].admitted

C13_Witness ==
    /\ runtimeKey # "workerd"
    /\ \E r \in Reqs : Done(r) /\ req[r].ep = "url"
                               /\ req[r].res = JsonError(500, ErrRuntime)

\* C14: the quota is per calendar day.  The check of a request admits it
\* exactly when the rows of its own ip and day are fewer than
\* MAX_UPLOAD_COUNT, whatever the rows of other days, and no step removes a
\* row: a client that is full on one day is admitted on the next.
C14_QuotaPerDay ==
    [][/\ \A i \in ClientIps, d \in Days : uploads'[i][d] >= uploads[i][d]
       /\ \A r \in Reqs :
            (req[r].pc = "count" /\ req'[r].pc # "count")
               => /\ req'[r].pc = "charge"
                     <=> uploads[req[r].ip][req[r].today] < MAX_UPLOAD_COUNT
                  /\ req'[r].pc # "charge"
                     => /\ req'[r].pc = "done"
                        /\ req'[r].res = JsonError(429, ErrLimit)]_vars

\* a client that filled its quota on the day before has been admitted today
C14_Witness ==
    \E r \in Reqs :
        /\ req[r].admitted
        /\ req[r].today > 1
        /\ uploads[req[r].ip][req[r].today - 1] = MAX_UPLOAD_COUNT

\* C15: the requests without a client identifier, of either endpoint, are
\* counted under "unknown": together they add at most MAX_UPLOAD_COUNT rows
\* per day, and they add no row under the address of an identified client.
C15_UnknownBucket ==
    /\ \A r \in Reqs : req[r].today # 0 => req[r].ip = "unknown"
    /\ \A d \in Days : uploads["unknown"][d] <= MAX_UPLOAD_COUNT
    /\ \A i \in ClientIps \ {"unknown"}, d \in Days : uploads[i][d] = 0

MappedTypes == {<<"image", u>> : u \in {"jpeg", "png", "gif", "webp", "bmp",
                                        "tiff", "svg+xml"}}

\* C16: the key of a stored object ends in jpg for image/jpeg, png for
\* image/png, gif for image/gif, webp for image/webp, bmp for image/bmp,
\* tiff for image/tiff, svg for image/svg+xml and "unknown" for every other
\* content type; without a content type the call fails and stores nothing.
C16_ExtensionTable ==
    \A r \in Reqs :
        LET ct == req[r].ctype IN
        /\ req[r].stored # NoKey
              => LET ext == req[r].stored[2] IN
                 /\ ct # NoType
                 /\ ct = <<"image", "jpeg">> => ext = "jpg"
                 /\ ct = <<"image", "png">> => ext = "png"
                 /\ ct = <<"image", "gif">> => ext = "gif"
                 /\ ct = <<"image", "webp">> => ext = "webp"
                 /\ ct = <<"image", "bmp">> => ext = "bmp"
                 /\ ct = <<"image", "tiff">> => ext = "tiff"
                 /\ ct = <<"image", "svg+xml">> => ext = "svg"
                 /\ ct \notin MappedTypes => ext = "unknown"
        /\ (ct = NoType /\ req[r].pc \notin {"idle", "put"})
              => /\ Done(r)
                 /\ req[r].res.status # 200
                 /\ req[r].stored = NoKey

C16_Witness ==
    \E r \in Reqs :
        /\ req[r].ctype = <<"image", "xyz">>
        /\ req[r].stored # NoKey
        /\ req[r].stored[2] = "unknown"

\* C17: every row of images names the url of an object that is in the
\* bucket and holds the bytes of the row's md5, also after requests have
\* failed between their steps: a request inserts its row only after its own
\* r2.put has completed.
C17_IndexedIsStored ==
    /\ \A row \in images :
         \E o \in objects : /\ ImageUrl(o.key) = row.url
                            /\ calculateMD5(o.body) = row.md5
    /\ \A r \in Reqs :
         (req[r].pc = "index" \/ req[r].indexed)
            => \E o \in objects : o.key = req[r].stored /\ o.body = req[r].body

\* a request has failed after its put while another has its row in images
C17_Witness ==
    /\ images # {}
    /\ \E r \in Reqs : /\ Done(r)
                       /\ req[r].res.status # 200
                       /\ req[r].stored # NoKey

\* SELECT url FROM images WHERE md5 = ?
Lookup(md5) == {row.url : row \in {x \in images : x.md5 = md5}}

\* C18: a row of images is never changed or removed, and once a md5 is
\* indexed its lookup gives the same url in every later state.
C18_AssetsImmutable ==
    [][/\ \A row \in images : row \in images'
       /\ \A m \in DOMAIN served : Lookup(m) # {} => Lookup(m)' = Lookup(m)]_vars

\* a second insert for an indexed md5 has been attempted and has failed
C18_Witness ==
    \E r \in Reqs :
        /\ Done(r)
        /\ req[r].stored # NoKey
        /\ ~req[r].indexed
        /\ Lookup(req[r].md5) # {}
        /\ ImageUrl(req[r].stored) \notin Lookup(req[r].md5)

\* C19: a request is admitted only after its content type and its declared
\* size have passed their checks, and it issues r2.put only after it has
\* been admitted and its dedup lookup has missed.
C19_PutAfterChecksInOrder ==
    \A r \in Reqs :
        /\ req[r].admitted
              => /\ req[r].ctype # NoType
                 /\ req[r].ctype[1] = "image"
                 /\ req[r].clen <= MAX_BODY_SIZE
        /\ (req[r].pc \in {"put", "index"} \/ req[r].stored # NoKey)
              => /\ req[r].admitted
                 /\ req[r].md5 # NoMd5

\* C20: a request that returns success for bytes it has hashed returns the
\* url that images holds for the md5 of those bytes at that moment.
C20_SuccessIsIndexed ==
    \A r \in Reqs :
        (Done(r) /\ req[r].res.status = 200 /\ req[r].md5 # NoMd5)
            => \E row \in images : /\ row.md5 = req[r].md5
                                   /\ row.url = req[r].res.url

C20_Witness ==
    \E r \in Reqs :
        /\ Done(r)
        /\ req[r].indexed
        /\ req[r].res = Success(ImageUrl(req[r].stored))

====
